---- MODULE Spec2Model ----
(***************************************************************************)
(* Tool lending registry (src/src/index.ts): user profiles, tool listings  *)
(* and borrowing transactions kept in three StableBTreeMap stores, and the *)
(* exported operations on them.  Every exported function is synchronous    *)
(* (no await), so one call runs to completion before the next starts: one  *)
(* action per call.                                                        *)
(***************************************************************************)
EXTENDS Integers, Sequences, FiniteSets, TLC

VARIABLES users, tools, txs, nextUser, nextTool, nextTx, nUpdates, calls, last

vars == <<users, tools, txs, nextUser, nextTool, nextTx, nUpdates, calls, last>>

stores == <<users, tools, txs>>

\* ---------------------------------------------------------------- bounds
\* uuidv4() never repeats: the n-th identifier minted for a store is n.
MaxUsers == 2
MaxTools == 2
MaxTxs == 2
\* Number of update* calls in one run.
MaxUpdates == 1
\* Number of calls in one run.
MaxCalls == 6

\* An identifier (a string a client may pass) that uuidv4() never mints.
Ghost == 0

\* new Date().toISOString(): some non-null timestamp string.
NowISO == "date"
Null == "null"

\* ---------------------------------------------------------------- stores
\* StableBTreeMap: get / insert (insert or replace) / remove / values.
EmptyMap == [k \in {} |-> 0]

Has(m, id) == id \in DOMAIN m

Insert(m, id, v) == [k \in DOMAIN m \cup {id} |-> IF k = id THEN v ELSE m[k]]

Remove(m, id) == [k \in DOMAIN m \ {id} |-> m[k]]

Values(m) == {m[k] : k \in DOMAIN m}

\* Array.prototype.includes / push / filter(t => t !== x)
Includes(s, x) == \E i \in DOMAIN s : s[i] = x

Push(s, x) == Append(s, x)

Without(s, x) == SelectSeq(s, LAMBDA t : t # x)

\* { ...existing, ...updates }: every field of the payload overrides.
Merge(existing, updates) ==
  [f \in DOMAIN existing \cup DOMAIN updates |->
     IF f \in DOMAIN updates THEN updates[f] ELSE existing[f]]

\* The value an operation leaves behind: the result object and the stores.
Result(ok, err, data, u, t, x) ==
  [ok |-> ok, err |-> err, data |-> data, users |-> u, tools |-> t, txs |-> x]

Fail(err, u, t, x) == Result(FALSE, err, Ghost, u, t, x)

\* ---------------------------------------------------------------- users
createUser(u, t, x, newId, username, contactInfo) ==
  IF username = "" \/ contactInfo = ""
  THEN Fail("Username and contact info are required", u, t, x)
  ELSE Result(TRUE, "", newId,
              Insert(u, newId, [userId |-> newId, username |-> username,
                                contactInfo |-> contactInfo,
                                toolsOwned |-> <<>>, toolsBorrowed |-> <<>>]),
              t, x)

updateUser(u, t, x, userId, updates) ==
  IF ~Has(u, userId)
  THEN Fail("User not found", u, t, x)
  ELSE LET updatedUser == [Merge(u[userId], updates) EXCEPT !.userId = u[userId].userId]
       IN Result(TRUE, "", userId, Insert(u, userId, updatedUser), t, x)

deleteUser(u, t, x, userId) ==
  IF ~Has(u, userId)
  THEN Fail("User not found", u, t, x)
  ELSE LET activeTransactions ==
             {tr \in Values(x) :
                /\ (tr.borrowerId = userId \/ Includes(u[userId].toolsOwned, tr.toolId))
                /\ tr.status # "returned"}
       IN IF activeTransactions # {}
          THEN Fail("Cannot delete user with active borrowing transactions", u, t, x)
          ELSE Result(TRUE, "", userId, Remove(u, userId), t, x)

\* ---------------------------------------------------------------- tools
\* createTool that inserts the tool before it looks the owner up.
createTool_InsertFirst(u, t, x, newId, ownerId, toolName, description, condition) ==
  IF toolName = "" \/ description = "" \/ condition = ""
  THEN Fail("Tool name, description, and condition are required", u, t, x)
  ELSE IF ~Has(u, ownerId)
  THEN Fail("Owner not found", u,
            Insert(t, newId, [toolId |-> newId, ownerId |-> ownerId,
                              toolName |-> toolName, description |-> description,
                              availability |-> TRUE, condition |-> condition]), x)
  ELSE LET newTool == [toolId |-> newId, ownerId |-> ownerId, toolName |-> toolName,
                       description |-> description, availability |-> TRUE,
                       condition |-> condition]
           owner == [u[ownerId] EXCEPT !.toolsOwned = Push(@, newId)]
       IN Result(TRUE, "", newId, Insert(u, ownerId, owner), Insert(t, newId, newTool), x)

createTool(u, t, x, newId, ownerId, toolName, description, condition) ==
  IF toolName = "" \/ description = "" \/ condition = ""
  THEN Fail("Tool name, description, and condition are required", u, t, x)
  ELSE IF ~Has(u, ownerId)
  THEN Fail("Owner not found", u, t, x)
  ELSE LET newTool == [toolId |-> newId, ownerId |-> ownerId, toolName |-> toolName,
                       description |-> description, availability |-> TRUE,
                       condition |-> condition]
           owner == [u[ownerId] EXCEPT !.toolsOwned = Push(@, newId)]
       IN Result(TRUE, "", newId, Insert(u, ownerId, owner), Insert(t, newId, newTool), x)

\* updateTool that protects toolId only.
updateTool_NoOwnerGuard(u, t, x, toolId, updates) ==
  IF ~Has(t, toolId)
  THEN Fail("Tool not found", u, t, x)
  ELSE LET updatedTool == [Merge(t[toolId], updates) EXCEPT
                             !.toolId = t[toolId].toolId]
       IN Result(TRUE, "", toolId, u, Insert(t, toolId, updatedTool), x)

updateTool(u, t, x, toolId, updates) ==
  IF ~Has(t, toolId)
  THEN Fail("Tool not found", u, t, x)
  ELSE LET updatedTool == [Merge(t[toolId], updates) EXCEPT
                             !.toolId = t[toolId].toolId,
                             !.ownerId = t[toolId].ownerId]
       IN Result(TRUE, "", toolId, u, Insert(t, toolId, updatedTool), x)

\* deleteTool that is blocked by pending transactions only.
deleteTool_PendingOnly(u, t, x, toolId) ==
  IF ~Has(t, toolId)
  THEN Fail("Tool not found", u, t, x)
  ELSE LET activeTransactions ==
             {tr \in Values(x) : tr.toolId = toolId /\ tr.status = "pending"}
           ownerId == t[toolId].ownerId
           u2 == IF Has(u, ownerId)
                 THEN Insert(u, ownerId,
                             [u[ownerId] EXCEPT !.toolsOwned = Without(@, toolId)])
                 ELSE u
       IN IF activeTransactions # {}
          THEN Fail("Cannot delete tool with active borrowing transactions", u, t, x)
          ELSE Result(TRUE, "", toolId, u2, Remove(t, toolId), x)

deleteTool(u, t, x, toolId) ==
  IF ~Has(t, toolId)
  THEN Fail("Tool not found", u, t, x)
  ELSE LET activeTransactions ==
             {tr \in Values(x) : tr.toolId = toolId /\ tr.status # "returned"}
           ownerId == t[toolId].ownerId
           u2 == IF Has(u, ownerId)
                 THEN Insert(u, ownerId,
                             [u[ownerId] EXCEPT !.toolsOwned = Without(@, toolId)])
                 ELSE u
       IN IF activeTransactions # {}
          THEN Fail("Cannot delete tool with active borrowing transactions", u, t, x)
          ELSE Result(TRUE, "", toolId, u2, Remove(t, toolId), x)

\* ---------------------------------------------------------------- transactions
\* createTransaction that only checks that the tool exists.
createTransaction_NoAvailabilityCheck(u, t, x, newId, borrowerId, toolId) ==
  IF ~Has(t, toolId)
  THEN Fail("Tool is not available for borrowing", u, t, x)
  ELSE IF ~Has(u, borrowerId)
  THEN Fail("Borrower not found", u, t, x)
  ELSE LET newTransaction == [transactionId |-> newId, toolId |-> toolId,
                              borrowerId |-> borrowerId, borrowDate |-> NowISO,
                              returnDate |-> Null, status |-> "pending"]
           tool == [t[toolId] EXCEPT !.availability = FALSE]
           borrower == [u[borrowerId] EXCEPT !.toolsBorrowed = Push(@, toolId)]
       IN Result(TRUE, "", newId, Insert(u, borrowerId, borrower),
                 Insert(t, toolId, tool), Insert(x, newId, newTransaction))

\* createTransaction that looks the borrower up before the tool.
createTransaction_BorrowerFirst(u, t, x, newId, borrowerId, toolId) ==
  IF ~Has(u, borrowerId)
  THEN Fail("Borrower not found", u, t, x)
  ELSE IF ~Has(t, toolId) \/ ~t[toolId].availability
  THEN Fail("Tool is not available for borrowing", u, t, x)
  ELSE LET newTransaction == [transactionId |-> newId, toolId |-> toolId,
                              borrowerId |-> borrowerId, borrowDate |-> NowISO,
                              returnDate |-> Null, status |-> "pending"]
           tool == [t[toolId] EXCEPT !.availability = FALSE]
           borrower == [u[borrowerId] EXCEPT !.toolsBorrowed = Push(@, toolId)]
       IN Result(TRUE, "", newId, Insert(u, borrowerId, borrower),
                 Insert(t, toolId, tool), Insert(x, newId, newTransaction))

\* createTransaction that does not record the tool in the borrower's toolsBorrowed.
createTransaction_NoBorrowerUpdate(u, t, x, newId, borrowerId, toolId) ==
  IF ~Has(t, toolId) \/ ~t[toolId].availability
  THEN Fail("Tool is not available for borrowing", u, t, x)
  ELSE IF ~Has(u, borrowerId)
  THEN Fail("Borrower not found", u, t, x)
  ELSE LET newTransaction == [transactionId |-> newId, toolId |-> toolId,
                              borrowerId |-> borrowerId, borrowDate |-> NowISO,
                              returnDate |-> Null, status |-> "pending"]
           tool == [t[toolId] EXCEPT !.availability = FALSE]
           borrower == [u[borrowerId] EXCEPT !.toolsBorrowed = Push(@, toolId)]
       IN Result(TRUE, "", newId, u,
                 Insert(t, toolId, tool), Insert(x, newId, newTransaction))

createTransaction(u, t, x, newId, borrowerId, toolId) ==
  IF ~Has(t, toolId) \/ ~t[toolId].availability
  THEN Fail("Tool is not available for borrowing", u, t, x)
  ELSE IF ~Has(u, borrowerId)
  THEN Fail("Borrower not found", u, t, x)
  ELSE LET newTransaction == [transactionId |-> newId, toolId |-> toolId,
                              borrowerId |-> borrowerId, borrowDate |-> NowISO,
                              returnDate |-> Null, status |-> "pending"]
           tool == [t[toolId] EXCEPT !.availability = FALSE]
           borrower == [u[borrowerId] EXCEPT !.toolsBorrowed = Push(@, toolId)]
       IN Result(TRUE, "", newId, Insert(u, borrowerId, borrower),
                 Insert(t, toolId, tool), Insert(x, newId, newTransaction))

updateTransaction(u, t, x, transactionId, updates) ==
  IF ~Has(x, transactionId)
  THEN Fail("Transaction not found", u, t, x)
  ELSE LET updatedTransaction ==
             [Merge(x[transactionId], updates) EXCEPT
                !.transactionId = x[transactionId].transactionId]
       IN Result(TRUE, "", transactionId, u, t, Insert(x, transactionId, updatedTransaction))

\* deleteTransaction that removes a transaction whatever its status.
deleteTransaction_NoStatusCheck(u, t, x, transactionId) ==
  IF ~Has(x, transactionId)
  THEN Fail("Transaction not found", u, t, x)
  ELSE Result(TRUE, "", transactionId, u, t, Remove(x, transactionId))

deleteTransaction(u, t, x, transactionId) ==
  IF ~Has(x, transactionId)
  THEN Fail("Transaction not found", u, t, x)
  ELSE IF x[transactionId].status # "returned"
  THEN Fail("Cannot delete active transaction", u, t, x)
  ELSE Result(TRUE, "", transactionId, u, t, Remove(x, transactionId))

\* returnTool that only checks that the transaction exists.
returnTool_NoStatusCheck(u, t, x, transactionId) ==
  IF ~Has(x, transactionId)
  THEN Fail("Invalid transaction or tool has already been returned", u, t, x)
  ELSE LET transaction == x[transactionId]
           updatedTransaction ==
             [transaction EXCEPT !.returnDate = NowISO, !.status = "returned"]
           x2 == Insert(x, transactionId, updatedTransaction)
       IN IF Has(t, transaction.toolId)
          THEN LET t2 == Insert(t, transaction.toolId,
                                [t[transaction.toolId] EXCEPT !.availability = TRUE])
                   u2 == IF Has(u, transaction.borrowerId)
                         THEN Insert(u, transaction.borrowerId,
                                     [u[transaction.borrowerId] EXCEPT
                                        !.toolsBorrowed = Without(@, transaction.toolId)])
                         ELSE u
               IN Result(TRUE, "", transaction.toolId, u2, t2, x2)
          ELSE Fail("Tool not found", u, t, x2)

\* returnTool that leaves the borrower's toolsBorrowed as it is.
returnTool_KeepBorrowed(u, t, x, transactionId) ==
  IF ~Has(x, transactionId) \/ x[transactionId].status # "pending"
  THEN Fail("Invalid transaction or tool has already been returned", u, t, x)
  ELSE LET transaction == x[transactionId]
           updatedTransaction ==
             [transaction EXCEPT !.returnDate = NowISO, !.status = "returned"]
           x2 == Insert(x, transactionId, updatedTransaction)
       IN IF Has(t, transaction.toolId)
          THEN LET t2 == Insert(t, transaction.toolId,
                                [t[transaction.toolId] EXCEPT !.availability = TRUE])
                   u2 == IF Has(u, transaction.borrowerId)
                         THEN Insert(u, transaction.borrowerId,
                                     [u[transaction.borrowerId] EXCEPT
                                        !.toolsBorrowed = @])
                         ELSE u
               IN Result(TRUE, "", transaction.toolId, u2, t2, x2)
          ELSE Fail("Tool not found", u, t, x2)

\* returnTool that rejects only a transaction already returned.
returnTool_OnlyReturnedRejected(u, t, x, transactionId) ==
  IF ~Has(x, transactionId) \/ x[transactionId].status = "returned"
  THEN Fail("Invalid transaction or tool has already been returned", u, t, x)
  ELSE LET transaction == x[transactionId]
           updatedTransaction ==
             [transaction EXCEPT !.returnDate = NowISO, !.status = "returned"]
           x2 == Insert(x, transactionId, updatedTransaction)
       IN IF Has(t, transaction.toolId)
          THEN LET t2 == Insert(t, transaction.toolId,
                                [t[transaction.toolId] EXCEPT !.availability = TRUE])
                   u2 == IF Has(u, transaction.borrowerId)
                         THEN Insert(u, transaction.borrowerId,
                                     [u[transaction.borrowerId] EXCEPT
                                        !.toolsBorrowed = Without(@, transaction.toolId)])
                         ELSE u
               IN Result(TRUE, "", transaction.toolId, u2, t2, x2)
          ELSE Fail("Tool not found", u, t, x2)

\* returnTool that does not make the tool available again.
returnTool_KeepUnavailable(u, t, x, transactionId) ==
  IF ~Has(x, transactionId) \/ x[transactionId].status # "pending"
  THEN Fail("Invalid transaction or tool has already been returned", u, t, x)
  ELSE LET transaction == x[transactionId]
           updatedTransaction ==
             [transaction EXCEPT !.returnDate = NowISO, !.status = "returned"]
           x2 == Insert(x, transactionId, updatedTransaction)
       IN IF Has(t, transaction.toolId)
          THEN LET t2 == Insert(t, transaction.toolId,
                                t[transaction.toolId])
                   u2 == IF Has(u, transaction.borrowerId)
                         THEN Insert(u, transaction.borrowerId,
                                     [u[transaction.borrowerId] EXCEPT
                                        !.toolsBorrowed = Without(@, transaction.toolId)])
                         ELSE u
               IN Result(TRUE, "", transaction.toolId, u2, t2, x2)
          ELSE Fail("Tool not found", u, t, x2)

\* The transaction is written back as returned before the tool is looked up, so
\* the 'Tool not found' failure keeps that write.
returnTool(u, t, x, transactionId) ==
  IF ~Has(x, transactionId) \/ x[transactionId].status # "pending"
  THEN Fail("Invalid transaction or tool has already been returned", u, t, x)
  ELSE LET transaction == x[transactionId]
           updatedTransaction ==
             [transaction EXCEPT !.returnDate = NowISO, !.status = "returned"]
           x2 == Insert(x, transactionId, updatedTransaction)
       IN IF Has(t, transaction.toolId)
          THEN LET t2 == Insert(t, transaction.toolId,
                                [t[transaction.toolId] EXCEPT !.availability = TRUE])
                   u2 == IF Has(u, transaction.borrowerId)
                         THEN Insert(u, transaction.borrowerId,
                                     [u[transaction.borrowerId] EXCEPT
                                        !.toolsBorrowed = Without(@, transaction.toolId)])
                         ELSE u
               IN Result(TRUE, "", transaction.toolId, u2, t2, x2)
          ELSE Fail("Tool not found", u, t, x2)

\* viewAvailableTools that lists every stored tool.
viewAvailableTools_All(t) == Values(t)

viewAvailableTools(t) == {tool \in Values(t) : tool.availability}

\* ---------------------------------------------------------------- inputs
\* Identifiers a client can pass: every identifier minted so far (stored or
\* deleted since) and one that was never minted.
UserArgs == {Ghost} \cup 1..(nextUser - 1)

ToolArgs == {Ghost} \cup 1..(nextTool - 1)

TxArgs == {Ghost} \cup 1..(nextTx - 1)

Statuses == {"pending", "approved", "returned"}

\* Partial<UserProfile>, Partial<ToolListing>, Partial<BorrowingTransaction>
UserPayloads ==
  {[username |-> "n2"],
   [userId |-> Ghost, contactInfo |-> "c2"],
   [toolsOwned |-> <<>>]}

ToolPayloads ==
  {[toolId |-> Ghost, ownerId |-> Ghost, toolName |-> "t2"],
   [availability |-> TRUE],
   [availability |-> FALSE]}

TxPayloads ==
  {[status |-> s] : s \in Statuses}
    \cup {[toolId |-> i] : i \in ToolArgs}
    \cup {[borrowerId |-> i] : i \in UserArgs}
    \cup {[transactionId |-> Ghost, returnDate |-> NowISO]}

\* ---------------------------------------------------------------- calls
Init ==
  /\ users = EmptyMap
  /\ tools = EmptyMap
  /\ txs = EmptyMap
  /\ nextUser = 1
  /\ nextTool = 1
  /\ nextTx = 1
  /\ nUpdates = 0
  /\ calls = 0
  /\ last = [op |-> "none", ok |-> TRUE, err |-> ""]

\* The stores after the call, and the call and its result as the caller saw them.
\* A createTransaction or returnTool call also records whether it is the
\* second of two back-to-back calls (`second`): the call before it was the same
\* operation on the same tool / transaction and succeeded.
Do(r, call) ==
  /\ users' = r.users
  /\ tools' = r.tools
  /\ txs' = r.txs
  /\ last' = call
  /\ calls < MaxCalls
  /\ calls' = calls + 1

CreateUser ==
  \E username \in {"", "n1"}, contactInfo \in {"", "c1"} :
    LET r == createUser(users, tools, txs, nextUser, username, contactInfo)
    IN /\ r.ok => nextUser <= MaxUsers
       /\ Do(r, [op |-> "createUser", ok |-> r.ok, err |-> r.err, data |-> r.data])
       /\ nextUser' = IF r.ok THEN nextUser + 1 ELSE nextUser
       /\ UNCHANGED <<nextTool, nextTx, nUpdates>>

UpdateUser ==
  \E userId \in UserArgs, updates \in UserPayloads :
    LET r == updateUser(users, tools, txs, userId, updates)
    IN /\ nUpdates < MaxUpdates
       /\ Do(r, [op |-> "updateUser", ok |-> r.ok, err |-> r.err,
                 userId |-> userId, updates |-> updates])
       /\ nUpdates' = nUpdates + 1
       /\ UNCHANGED <<nextUser, nextTool, nextTx>>

DeleteUser ==
  \E userId \in UserArgs :
    LET r == deleteUser(users, tools, txs, userId)
    IN /\ Do(r, [op |-> "deleteUser", ok |-> r.ok, err |-> r.err, userId |-> userId])
       /\ UNCHANGED <<nextUser, nextTool, nextTx, nUpdates>>

CreateTool ==
  \E ownerId \in UserArgs, toolName \in {"", "t1"} :
    LET r == createTool(users, tools, txs, nextTool, ownerId, toolName, "d1", "good")
    IN /\ r.ok => nextTool <= MaxTools
       /\ Do(r, [op |-> "createTool", ok |-> r.ok, err |-> r.err, data |-> r.data,
                 ownerId |-> ownerId, toolName |-> toolName])
       /\ nextTool' = IF r.ok THEN nextTool + 1 ELSE nextTool
       /\ UNCHANGED <<nextUser, nextTx, nUpdates>>

UpdateTool ==
  \E toolId \in ToolArgs, updates \in ToolPayloads :
    LET r == updateTool(users, tools, txs, toolId, updates)
    IN /\ nUpdates < MaxUpdates
       /\ Do(r, [op |-> "updateTool", ok |-> r.ok, err |-> r.err,
                 toolId |-> toolId, updates |-> updates])
       /\ nUpdates' = nUpdates + 1
       /\ UNCHANGED <<nextUser, nextTool, nextTx>>

DeleteTool ==
  \E toolId \in ToolArgs :
    LET r == deleteTool(users, tools, txs, toolId)
    IN /\ Do(r, [op |-> "deleteTool", ok |-> r.ok, err |-> r.err, toolId |-> toolId])
       /\ UNCHANGED <<nextUser, nextTool, nextTx, nUpdates>>

CreateTransaction ==
  \E borrowerId \in UserArgs, toolId \in ToolArgs :
    LET r == createTransaction(users, tools, txs, nextTx, borrowerId, toolId)
    IN /\ r.ok => nextTx <= MaxTxs
       /\ Do(r, [op |-> "createTransaction", ok |-> r.ok, err |-> r.err, data |-> r.data,
                 borrowerId |-> borrowerId, toolId |-> toolId,
                 second |-> (last.op = "createTransaction" /\ last.ok
                               /\ last.toolId = toolId)])
       /\ nextTx' = IF r.ok THEN nextTx + 1 ELSE nextTx
       /\ UNCHANGED <<nextUser, nextTool, nUpdates>>

UpdateTransaction ==
  \E transactionId \in TxArgs, updates \in TxPayloads :
    LET r == updateTransaction(users, tools, txs, transactionId, updates)
    IN /\ nUpdates < MaxUpdates
       /\ Do(r, [op |-> "updateTransaction", ok |-> r.ok, err |-> r.err,
                 transactionId |-> transactionId, updates |-> updates])
       /\ nUpdates' = nUpdates + 1
       /\ UNCHANGED <<nextUser, nextTool, nextTx>>

DeleteTransaction ==
  \E transactionId \in TxArgs :
    LET r == deleteTransaction(users, tools, txs, transactionId)
    IN /\ Do(r, [op |-> "deleteTransaction", ok |-> r.ok, err |-> r.err,
                 transactionId |-> transactionId])
       /\ UNCHANGED <<nextUser, nextTool, nextTx, nUpdates>>

ReturnTool ==
  \E transactionId \in TxArgs :
    LET r == returnTool(users, tools, txs, transactionId)
    IN /\ Do(r, [op |-> "returnTool", ok |-> r.ok, err |-> r.err,
                 transactionId |-> transactionId,
                 second |-> (last.op = "returnTool" /\ last.ok
                               /\ last.transactionId = transactionId)])
       /\ UNCHANGED <<nextUser, nextTool, nextTx, nUpdates>>

ViewAvailableTools ==
  /\ Do(Result(TRUE, "", Ghost, users, tools, txs),
        [op |-> "viewAvailableTools", ok |-> TRUE, err |-> "",
         listing |-> viewAvailableTools(tools)])
  /\ UNCHANGED <<nextUser, nextTool, nextTx, nUpdates>>

Next ==
  \/ CreateUser
  \/ UpdateUser
  \/ DeleteUser
  \/ CreateTool
  \/ UpdateTool
  \/ DeleteTool
  \/ CreateTransaction
  \/ UpdateTransaction
  \/ DeleteTransaction
  \/ ReturnTool
  \/ ViewAvailableTools

Spec == Init /\ [][Next]_vars

\* The calls other than updateUser, updateTool and updateTransaction.
NextNoUpdate ==
  \/ CreateUser
  \/ DeleteUser
  \/ CreateTool
  \/ DeleteTool
  \/ CreateTransaction
  \/ DeleteTransaction
  \/ ReturnTool

SpecNoUpdate == Init /\ [][NextNoUpdate]_vars

\* ---------------------------------------------------------------- draft
\* The StableBTreeMap draft of the operations (src/unnamed/part_002, lines 37-150),
\* on the same three stores.
addUser(u, t, x, newId, username, contactInfo) ==
  Result(TRUE, "", newId,
         Insert(u, newId, [userId |-> newId, username |-> username,
                           contactInfo |-> contactInfo,
                           toolsOwned |-> <<>>, toolsBorrowed |-> <<>>]),
         t, x)

\* The tool is inserted before the owner is looked up.
addTool(u, t, x, newId, ownerId, toolName, description, condition) ==
  LET newTool == [toolId |-> newId, ownerId |-> ownerId, toolName |-> toolName,
                  description |-> description, availability |-> TRUE,
                  condition |-> condition]
      t2 == Insert(t, newId, newTool)
  IN IF Has(u, ownerId)
     THEN Result(TRUE, "", newId,
                 Insert(u, ownerId, [u[ownerId] EXCEPT !.toolsOwned = Push(@, newId)]),
                 t2, x)
     ELSE Fail("Owner not found", u, t2, x)

\* The transaction is inserted and the tool made unavailable before the
\* borrower is looked up.
borrowTool(u, t, x, newId, borrowerId, toolId) ==
  IF ~Has(t, toolId) \/ ~t[toolId].availability
  THEN Fail("Tool is not available for borrowing", u, t, x)
  ELSE LET newTransaction == [transactionId |-> newId, toolId |-> toolId,
                              borrowerId |-> borrowerId, borrowDate |-> NowISO,
                              returnDate |-> Null, status |-> "pending"]
           x2 == Insert(x, newId, newTransaction)
           t2 == Insert(t, toolId, [t[toolId] EXCEPT !.availability = FALSE])
       IN IF Has(u, borrowerId)
          THEN Result(TRUE, "", newId,
                      Insert(u, borrowerId,
                             [u[borrowerId] EXCEPT !.toolsBorrowed = Push(@, toolId)]),
                      t2, x2)
          ELSE Fail("Borrower not found", u, t2, x2)

\* The draft's returnTool: the borrower's toolsBorrowed is left alone.
draftReturnTool(u, t, x, transactionId) ==
  IF ~Has(x, transactionId) \/ x[transactionId].status # "pending"
  THEN Fail("Invalid transaction or tool has already been returned", u, t, x)
  ELSE LET transaction == [x[transactionId] EXCEPT
                             !.returnDate = NowISO, !.status = "returned"]
           x2 == Insert(x, transactionId, transaction)
       IN IF Has(t, transaction.toolId)
          THEN Result(TRUE, "", transaction.toolId, u,
                      Insert(t, transaction.toolId,
                             [t[transaction.toolId] EXCEPT !.availability = TRUE]),
                      x2)
          ELSE Fail("Tool not found", u, t, x2)

AddUser ==
  \E username \in {"", "n1"} :
    LET r == addUser(users, tools, txs, nextUser, username, "c1")
    IN /\ nextUser <= MaxUsers
       /\ Do(r, [op |-> "addUser", ok |-> r.ok, err |-> r.err, data |-> r.data])
       /\ nextUser' = nextUser + 1
       /\ UNCHANGED <<nextTool, nextTx, nUpdates>>

\* uuidv4() is called before anything else: an identifier is used up either way.
AddTool ==
  \E ownerId \in UserArgs :
    LET r == addTool(users, tools, txs, nextTool, ownerId, "t1", "d1", "good")
    IN /\ nextTool <= MaxTools
       /\ Do(r, [op |-> "addTool", ok |-> r.ok, err |-> r.err, data |-> r.data,
                 ownerId |-> ownerId])
       /\ nextTool' = nextTool + 1
       /\ UNCHANGED <<nextUser, nextTx, nUpdates>>

\* uuidv4() is called once the tool is found available.
BorrowTool ==
  \E borrowerId \in UserArgs, toolId \in ToolArgs :
    LET r == borrowTool(users, tools, txs, nextTx, borrowerId, toolId)
        minted == Has(r.txs, nextTx)
    IN /\ minted => nextTx <= MaxTxs
       /\ Do(r, [op |-> "borrowTool", ok |-> r.ok, err |-> r.err, data |-> r.data,
                 borrowerId |-> borrowerId, toolId |-> toolId])
       /\ nextTx' = IF minted THEN nextTx + 1 ELSE nextTx
       /\ UNCHANGED <<nextUser, nextTool, nUpdates>>

DraftReturnTool ==
  \E transactionId \in TxArgs :
    LET r == draftReturnTool(users, tools, txs, transactionId)
    IN /\ Do(r, [op |-> "draftReturnTool", ok |-> r.ok, err |-> r.err,
                 transactionId |-> transactionId])
       /\ UNCHANGED <<nextUser, nextTool, nextTx, nUpdates>>

NextDraft ==
  \/ AddUser
  \/ AddTool
  \/ BorrowTool
  \/ DraftReturnTool

SpecDraft == Init /\ [][NextDraft]_vars

\* ---------------------------------------------------------------- properties
PendingFor(toolId) == {k \in DOMAIN txs : txs[k].toolId = toolId /\ txs[k].status = "pending"}

Called(op) == calls' = calls + 1 /\ last'.op = op

ErrUnavailable == "Tool is not available for borrowing"

\* C1: for every stored tool, availability is false if and only if exactly one
\* stored transaction with that toolId has status pending.
C1_AvailabilityIffOnePending ==
  \A id \in DOMAIN tools :
    (tools[id].availability = FALSE) <=> (Cardinality(PendingFor(tools[id].toolId)) = 1)

\* C2: for every toolId at most one stored transaction with that toolId has
\* status pending.
C2_AtMostOnePending ==
  \A k \in DOMAIN txs : Cardinality(PendingFor(txs[k].toolId)) <= 1

\* C3: of two back-to-back createTransaction calls by stored borrowers on the
\* same stored, available tool, the first succeeds and adds one pending
\* transaction for the tool, the second fails with 'Tool is not available for
\* borrowing' and changes nothing: exactly one succeeds, one pending
\* transaction results from the two.
C3_BorrowRace ==
  [][Called("createTransaction") =>
       LET toolId == last'.toolId
           borrowerId == last'.borrowerId
       IN /\ (Has(tools, toolId) /\ tools[toolId].availability /\ Has(users, borrowerId))
               => /\ last'.ok
                  /\ \E k \in DOMAIN txs' \ DOMAIN txs :
                       txs' = Insert(txs, k, txs'[k])
                         /\ txs'[k].toolId = toolId /\ txs'[k].status = "pending"
          /\ (last'.second /\ Has(users, borrowerId))
               => /\ ~last'.ok
                  /\ last'.err = ErrUnavailable
                  /\ stores' = stores]_vars

C3_Witness ==
  /\ last.op = "createTransaction"
  /\ last.second
  /\ ~last.ok
  /\ Has(users, last.borrowerId)
  /\ \E k \in PendingFor(last.toolId) : txs[k].borrowerId # last.borrowerId
  /\ Cardinality(PendingFor(last.toolId)) = 1

\* C4: a call that returns success = false leaves the three stores as they were.
C4_FailedCallChangesNothing ==
  [][(calls' = calls + 1 /\ ~last'.ok) => stores' = stores]_vars

\* C5: a returnTool call made right after a successful returnTool on the same
\* transactionId fails and changes no record.
C5_SecondReturnFails ==
  [][(Called("returnTool") /\ last'.second) =>
       /\ ~last'.ok
       /\ last'.err = "Invalid transaction or tool has already been returned"
       /\ stores' = stores]_vars

C5_Witness ==
  /\ last.op = "returnTool"
  /\ last.second
  /\ ~last.ok
  /\ Has(txs, last.transactionId)
  /\ txs[last.transactionId].status = "returned"

\* C6: a transaction enters the store with status pending, no step moves a
\* stored transaction into pending, and a returned transaction stays returned.
C6_StatusMonotonic ==
  [][\A k \in DOMAIN txs' :
       IF k \in DOMAIN txs
       THEN /\ txs'[k].status = "pending" => txs[k].status = "pending"
            /\ txs[k].status = "returned" => txs'[k].status = "returned"
       ELSE txs'[k].status = "pending"]_vars

\* C7: a stored transaction keeps its toolId and borrowerId for as long as it
\* is stored.
C7_TxReferencesImmutable ==
  [][\A k \in DOMAIN txs \cap DOMAIN txs' :
       /\ txs'[k].toolId = txs[k].toolId
       /\ txs'[k].borrowerId = txs[k].borrowerId]_vars

\* The record `new` is `old` with the payload `p` merged in, the fields `ids` kept.
MergedKeeping(old, new, p, ids) ==
  /\ DOMAIN new = DOMAIN old
  /\ \A f \in DOMAIN old :
       new[f] = IF f \in ids THEN old[f]
                ELSE IF f \in DOMAIN p THEN p[f] ELSE old[f]

\* C8: a successful update keeps the record under its key with its identity
\* fields (userId; toolId and ownerId; transactionId) as before the call,
\* whatever the payload carries for them, and merges the payload's other fields.
C8_UpdatesKeepIdentity ==
  [][/\ (Called("updateUser") /\ last'.ok) =>
          /\ DOMAIN users' = DOMAIN users
          /\ Has(users, last'.userId)
          /\ MergedKeeping(users[last'.userId], users'[last'.userId],
                           last'.updates, {"userId"})
     /\ (Called("updateTool") /\ last'.ok) =>
          /\ DOMAIN tools' = DOMAIN tools
          /\ Has(tools, last'.toolId)
          /\ MergedKeeping(tools[last'.toolId], tools'[last'.toolId],
                           last'.updates, {"toolId", "ownerId"})
     /\ (Called("updateTransaction") /\ last'.ok) =>
          /\ DOMAIN txs' = DOMAIN txs
          /\ Has(txs, last'.transactionId)
          /\ MergedKeeping(txs[last'.transactionId], txs'[last'.transactionId],
                           last'.updates, {"transactionId"})]_vars

C8_Witness ==
  /\ last.op = "updateTool"
  /\ last.ok
  /\ {"toolId", "ownerId", "toolName"} \subseteq DOMAIN last.updates
  /\ tools[last.toolId].toolId = last.toolId
  /\ tools[last.toolId].toolId # last.updates.toolId
  /\ tools[last.toolId].ownerId # last.updates.ownerId
  /\ tools[last.toolId].toolName = last.updates.toolName

\* C9: createTransaction on a tool that is absent or unavailable fails with
\* 'Tool is not available for borrowing' whether or not the borrower is stored;
\* 'Borrower not found' is reported only for a stored, available tool; neither
\* failure changes a record.
C9_UnavailableBeforeBorrower ==
  [][Called("createTransaction") =>
       LET toolId == last'.toolId
           borrowerId == last'.borrowerId
       IN /\ (~Has(tools, toolId) \/ ~tools[toolId].availability)
               => (~last'.ok /\ last'.err = ErrUnavailable /\ stores' = stores)
          /\ (~last'.ok /\ last'.err = "Borrower not found")
               => /\ Has(tools, toolId)
                  /\ tools[toolId].availability
                  /\ ~Has(users, borrowerId)
                  /\ stores' = stores]_vars

C9_Witness ==
  /\ last.op = "createTransaction"
  /\ ~last.ok
  /\ last.err = ErrUnavailable
  /\ ~Has(users, last.borrowerId)
  /\ Has(tools, last.toolId)
  /\ ~tools[last.toolId].availability

\* C10: deleteTool on a stored tool fails with 'Cannot delete tool with active
\* borrowing transactions' and removes nothing when a stored transaction with
\* that toolId is not returned; otherwise it succeeds, the tool is gone and the
\* owner's toolsOwned no longer holds the toolId.  On an absent tool it fails
\* with 'Tool not found'.
C10_DeleteTool ==
  [][Called("deleteTool") =>
       LET toolId == last'.toolId
           active == {k \in DOMAIN txs : txs[k].toolId = toolId /\ txs[k].status # "returned"}
       IN IF ~Has(tools, toolId)
          THEN ~last'.ok /\ last'.err = "Tool not found" /\ stores' = stores
          ELSE IF active # {}
          THEN /\ ~last'.ok
               /\ last'.err = "Cannot delete tool with active borrowing transactions"
               /\ stores' = stores
          ELSE /\ last'.ok
               /\ ~Has(tools', toolId)
               /\ Has(users', tools[toolId].ownerId)
                    => ~Includes(users'[tools[toolId].ownerId].toolsOwned, toolId)]_vars

C10_Witness ==
  /\ last.op = "deleteTool"
  /\ last.ok
  /\ ~Has(tools, last.toolId)
  /\ \E k \in DOMAIN txs : txs[k].toolId = last.toolId /\ txs[k].status = "returned"
  /\ DOMAIN users # {}
  /\ \A id \in DOMAIN users : ~Includes(users[id].toolsOwned, last.toolId)

\* C11: deleteUser on a stored user fails with 'Cannot delete user with active
\* borrowing transactions' and removes nothing when a stored transaction that
\* is not returned has that borrowerId or references a stored tool whose
\* ownerId is that user; otherwise it succeeds and the user is gone.
C11_DeleteUser ==
  [][(Called("deleteUser") /\ Has(users, last'.userId)) =>
       LET userId == last'.userId
           active == {k \in DOMAIN txs :
                        /\ txs[k].status # "returned"
                        /\ \/ txs[k].borrowerId = userId
                           \/ /\ Has(tools, txs[k].toolId)
                              /\ tools[txs[k].toolId].ownerId = userId}
       IN IF active # {}
          THEN /\ ~last'.ok
               /\ last'.err = "Cannot delete user with active borrowing transactions"
               /\ stores' = stores
          ELSE last'.ok /\ ~Has(users', userId)]_vars

\* C12: deleteTransaction succeeds exactly when the transaction is stored with
\* status returned; on a pending or approved one it fails with 'Cannot delete
\* active transaction' and the transaction stays; it changes no other record.
C12_DeleteTransaction ==
  [][Called("deleteTransaction") =>
       LET id == last'.transactionId
       IN /\ last'.ok <=> (Has(txs, id) /\ txs[id].status = "returned")
          /\ last'.ok => ~Has(txs', id)
          /\ (Has(txs, id) /\ txs[id].status # "returned")
               => /\ last'.err = "Cannot delete active transaction"
                  /\ Has(txs', id)
                  /\ txs'[id] = txs[id]
          /\ users' = users
          /\ tools' = tools
          /\ DOMAIN txs' \ {id} = DOMAIN txs \ {id}
          /\ \A k \in DOMAIN txs \ {id} : txs'[k] = txs[k]]_vars

C12_Witness ==
  /\ last.op = "deleteTransaction"
  /\ ~last.ok
  /\ last.err = "Cannot delete active transaction"
  /\ Has(txs, last.transactionId)
  /\ txs[last.transactionId].status = "approved"

\* C13: a stored transaction becomes returned only in a successful returnTool
\* call on it, and that step leaves the referenced tool available.
C13_ReturnedOnlyByReturnTool ==
  [][\A k \in DOMAIN txs \cap DOMAIN txs' :
       (txs[k].status # "returned" /\ txs'[k].status = "returned")
         => /\ Called("returnTool")
            /\ last'.ok
            /\ last'.transactionId = k
            /\ Has(tools', txs[k].toolId)
            /\ tools'[txs[k].toolId].availability]_vars

\* Every record of the map `old` but the one under `id` is in `new` unchanged.
OthersSame(old, new, id) ==
  /\ DOMAIN new \ {id} = DOMAIN old \ {id}
  /\ \A k \in DOMAIN old \ {id} : new[k] = old[k]

\* C14: a successful createTransaction(borrowerId, toolId) is made on a stored
\* available tool by a stored borrower; it adds one transaction with that
\* toolId and borrowerId, status pending and returnDate null, sets the tool's
\* availability to false, appends toolId to the borrower's toolsBorrowed and
\* changes no other record.
C14_CreateTransactionEffect ==
  [][(Called("createTransaction") /\ last'.ok) =>
       LET toolId == last'.toolId
           borrowerId == last'.borrowerId
           id == last'.data
       IN /\ Has(tools, toolId) /\ tools[toolId].availability /\ Has(users, borrowerId)
          /\ ~Has(txs, id) /\ Has(txs', id)
          /\ OthersSame(txs, txs', id)
          /\ txs'[id].transactionId = id
          /\ txs'[id].toolId = toolId
          /\ txs'[id].borrowerId = borrowerId
          /\ txs'[id].status = "pending"
          /\ txs'[id].returnDate = Null
          /\ Has(tools', toolId)
          /\ tools'[toolId] = [tools[toolId] EXCEPT !.availability = FALSE]
          /\ OthersSame(tools, tools', toolId)
          /\ Has(users', borrowerId)
          /\ users'[borrowerId] =
               [users[borrowerId] EXCEPT !.toolsBorrowed = Append(@, toolId)]
          /\ OthersSame(users, users', borrowerId)]_vars

C14_Witness ==
  /\ last.op = "createTransaction"
  /\ last.ok
  /\ Cardinality(DOMAIN users) = 2
  /\ Cardinality(DOMAIN tools) = 2
  /\ Cardinality(DOMAIN txs) = 2
  /\ txs[last.data].status = "pending"
  /\ ~tools[last.toolId].availability
  /\ Includes(users[last.borrowerId].toolsBorrowed, last.toolId)

\* C15: a successful returnTool(transactionId) sets that transaction's status
\* to returned and its returnDate to a non-null value and keeps its other
\* fields, sets the referenced tool's availability to true, removes the toolId
\* from the toolsBorrowed of the borrower (when stored) and changes no other
\* record.
C15_ReturnToolEffect ==
  [][(Called("returnTool") /\ last'.ok) =>
       LET id == last'.transactionId
           toolId == txs[id].toolId
           borrowerId == txs[id].borrowerId
       IN /\ Has(txs, id) /\ Has(txs', id)
          /\ txs'[id].status = "returned"
          /\ txs'[id].returnDate # Null
          /\ \A f \in DOMAIN txs[id] \ {"status", "returnDate"} : txs'[id][f] = txs[id][f]
          /\ OthersSame(txs, txs', id)
          /\ Has(tools, toolId) /\ Has(tools', toolId)
          /\ tools'[toolId] = [tools[toolId] EXCEPT !.availability = TRUE]
          /\ OthersSame(tools, tools', toolId)
          /\ OthersSame(users, users', borrowerId)
          /\ Has(users, borrowerId) <=> Has(users', borrowerId)
          /\ Has(users, borrowerId) =>
               /\ ~Includes(users'[borrowerId].toolsBorrowed, toolId)
               /\ users'[borrowerId] =
                    [users[borrowerId] EXCEPT !.toolsBorrowed = Without(@, toolId)]]_vars

C15_Witness ==
  /\ last.op = "returnTool"
  /\ last.ok
  /\ Has(txs, last.transactionId)
  /\ txs[last.transactionId].status = "returned"
  /\ txs[last.transactionId].returnDate = NowISO
  /\ Has(tools, txs[last.transactionId].toolId)
  /\ tools[txs[last.transactionId].toolId].availability
  /\ Has(users, txs[last.transactionId].borrowerId)
  /\ users[txs[last.transactionId].borrowerId].toolsBorrowed = <<>>
  /\ Cardinality(DOMAIN txs) = 2

\* C16: createTool succeeds exactly when the fields are non-empty and ownerId
\* is a stored user; it then inserts one tool with that ownerId and
\* availability true and appends its toolId to the owner's toolsOwned, both
\* in the stores the next call reads; a failing createTool adds neither a tool
\* nor a toolsOwned entry.
C16_CreateToolAllOrNothing ==
  [][Called("createTool") =>
       LET ownerId == last'.ownerId
           id == last'.data
       IN /\ last'.ok <=> (last'.toolName # "" /\ Has(users, ownerId))
          /\ last'.ok =>
               /\ ~Has(tools, id) /\ Has(tools', id)
               /\ OthersSame(tools, tools', id)
               /\ tools'[id].toolId = id
               /\ tools'[id].ownerId = ownerId
               /\ tools'[id].availability
               /\ users'[ownerId] = [users[ownerId] EXCEPT !.toolsOwned = Append(@, id)]
               /\ OthersSame(users, users', ownerId)
               /\ viewAvailableTools(tools') = viewAvailableTools(tools) \cup {tools'[id]}
          /\ ~last'.ok => (tools' = tools /\ users' = users)
          /\ txs' = txs]_vars

C16_Witness ==
  /\ last.op = "createTool"
  /\ ~last.ok
  /\ last.err = "Owner not found"
  /\ last.toolName # ""
  /\ ~Has(users, last.ownerId)
  /\ last.ownerId # Ghost
  /\ DOMAIN tools # {}

\* C17: no tool ID is in the toolsBorrowed of two stored users.
C17_BorrowedByOneUser ==
  \A a \in DOMAIN users, b \in DOMAIN users :
    a # b => ~\E i \in DOMAIN users[a].toolsBorrowed :
                Includes(users[b].toolsBorrowed, users[a].toolsBorrowed[i])

\* C18: for every stored user U and tool ID t, t is in U.toolsOwned exactly
\* when a stored tool with toolId t has ownerId U.userId.
C18_ToolsOwnedIsOwnership ==
  \A id \in DOMAIN users, t \in ToolArgs :
    Includes(users[id].toolsOwned, t)
      <=> \E k \in DOMAIN tools :
            tools[k].toolId = t /\ tools[k].ownerId = users[id].userId

\* C19: every stored transaction that is not returned references a stored tool
\* and a stored user.
C19_ActiveTxReferencesStored ==
  \A k \in DOMAIN txs :
    txs[k].status # "returned"
      => Has(tools, txs[k].toolId) /\ Has(users, txs[k].borrowerId)

\* C20: viewAvailableTools returns exactly the stored tools whose availability
\* is true and changes no record.
C20_ViewAvailableTools ==
  [][Called("viewAvailableTools") =>
       /\ last'.ok
       /\ stores' = stores
       /\ last'.listing \subseteq Values(tools)
       /\ \A id \in DOMAIN tools :
            tools[id] \in last'.listing <=> tools[id].availability = TRUE]_vars

C20_Witness ==
  /\ last.op = "viewAvailableTools"
  /\ \E a \in DOMAIN tools, b \in DOMAIN tools :
       /\ tools[a].availability
       /\ ~tools[b].availability
       /\ last.listing = {tools[a]}

\* C21: returnTool succeeds on every stored transaction whose status is
\* pending.
C21_ReturnToolSucceedsOnPending ==
  [][(/\ Called("returnTool")
      /\ Has(txs, last'.transactionId)
      /\ txs[last'.transactionId].status = "pending") => last'.ok]_vars

\* C22: returnTool on a stored transaction whose status is approved fails
\* with 'Invalid transaction or tool has already been returned' and changes no
\* record, and an updateTransaction that sets only status to approved leaves
\* users and tools (the referenced tool's availability) as they were.
C22_ApprovedIsNotReturnable ==
  [][/\ (/\ Called("returnTool")
         /\ Has(txs, last'.transactionId)
         /\ txs[last'.transactionId].status = "approved")
          => /\ ~last'.ok
             /\ last'.err = "Invalid transaction or tool has already been returned"
             /\ stores' = stores
     /\ (/\ Called("updateTransaction")
         /\ last'.ok
         /\ last'.updates = [status |-> "approved"])
          => /\ txs'[last'.transactionId].status = "approved"
             /\ tools' = tools
             /\ users' = users]_vars

C22_Witness ==
  /\ last.op = "returnTool"
  /\ ~last.ok
  /\ Has(txs, last.transactionId)
  /\ txs[last.transactionId].status = "approved"
  /\ txs[last.transactionId].returnDate = Null
  /\ Has(tools, txs[last.transactionId].toolId)
  /\ ~tools[txs[last.transactionId].toolId].availability
  /\ Has(users, txs[last.transactionId].borrowerId)
  /\ Includes(users[txs[last.transactionId].borrowerId].toolsBorrowed,
              txs[last.transactionId].toolId)

\* C23: for every stored user U and tool ID t, t is in U.toolsBorrowed exactly
\* when a stored transaction has toolId t, borrowerId U.userId and status
\* pending.
C23_ToolsBorrowedIsPendingLoans ==
  \A id \in DOMAIN users, t \in ToolArgs :
    Includes(users[id].toolsBorrowed, t)
      <=> \E k \in DOMAIN txs :
            /\ txs[k].toolId = t
            /\ txs[k].borrowerId = users[id].userId
            /\ txs[k].status = "pending"

\* C24: the ownerId of every stored tool is the key of a stored user.
C24_ToolOwnerStored ==
  \A k \in DOMAIN tools : Has(users, tools[k].ownerId)

\* C25: in runs without updateUser, updateTool and updateTransaction, a stored
\* tool's availability is false exactly when one stored transaction with its
\* toolId is pending, and the borrower of that transaction is a stored user
\* whose toolsBorrowed holds the toolId.
C25_NoUpdateAvailability ==
  \A id \in DOMAIN tools :
    LET pending == PendingFor(tools[id].toolId)
    IN /\ (tools[id].availability = FALSE) <=> (Cardinality(pending) = 1)
       /\ \A k \in pending :
            /\ Has(users, txs[k].borrowerId)
            /\ Includes(users[txs[k].borrowerId].toolsBorrowed, tools[id].toolId)

C25_Witness ==
  \E id \in DOMAIN tools :
    /\ ~tools[id].availability
    /\ Cardinality(PendingFor(id)) = 1
    /\ \E k \in DOMAIN txs : txs[k].toolId = id /\ txs[k].status = "returned"
    /\ \E k \in PendingFor(id) :
         /\ Has(users, txs[k].borrowerId)
         /\ Includes(users[txs[k].borrowerId].toolsBorrowed, id)

\* C26: in the draft, addTool with an owner that is not stored and borrowTool
\* with a borrower that is not stored return success = false and leave the
\* stores as they were (no tool or transaction inserted, no availability
\* changed).
C26_DraftFailureChangesNothing ==
  [][/\ (Called("addTool") /\ ~Has(users, last'.ownerId))
          => (~last'.ok /\ stores' = stores)
     /\ (Called("borrowTool") /\ ~Has(users, last'.borrowerId))
          => (~last'.ok /\ stores' = stores)]_vars

====
